---- MODULE Spec2Model ----
(***************************************************************************)
(* Inventory backend (src/backend/main.py): the inventory file, the sales  *)
(* file and the request handlers get_items, search_items, add_item,        *)
(* update_item, delete_item, sell_item, items_analysis and sales_history.  *)
(*                                                                         *)
(* Text.  Every CSV field and every request value is Python text; a text   *)
(* is modelled as the sequence of its characters, so that int(), float(),  *)
(* str() and the f-string formats are computed character by character.     *)
(* A JSON number in a request is represented by its decimal text (str() of *)
(* it, which is what the handlers store and what int()/float() read).      *)
(*                                                                         *)
(* Numbers.  float values are exact decimals here: a price is counted in   *)
(* thousandths, a rounded amount in hundredths.  Python's                  *)
(* round(x, 2) is round-half-even on the binary value; on the prices drawn *)
(* below no product or difference is a tie, so the binary result is the    *)
(* decimal one.                                                            *)
(***************************************************************************)
EXTENDS Integers, Sequences, FiniteSets, TLC

VARIABLES
  store,    \* rows of inventory.csv below the header (DATA_FILE)
  ledger,   \* rows of sales_history.csv below the header (SALES_FILE)
  today,    \* datetime.date.today() as last read: the day of the month
  req,      \* the request being answered
  resp,     \* its response: status, detail and the value the message carries
  issued,   \* history: every id an add_item has returned
  served,   \* history: how many requests have been answered
  threads,  \* the handlers running on the pool's threads, each with the step it
            \* is at, its request, its answer, and until it has answered the
            \* rows it read and its own list of rows
  raced     \* history: the operations that ran while another one was between
            \* reading the items file and rewriting it

vars == <<store, ledger, today, req, resp, issued, served, threads, raced>>

----------------------------------------------------------------------------
(* Bounds *)

MaxItems  == 2   \* rows in inventory.csv
MaxLedger == 2   \* rows in sales_history.csv
MaxId     == 3   \* largest id add_item hands out
MaxDay    == 2   \* days the clock runs through
MaxServed == 4   \* requests answered in one run

----------------------------------------------------------------------------
(* Python text *)

Digits == <<"0", "1", "2", "3", "4", "5", "6", "7", "8", "9">>

IsDigit(c) == \E k \in 1..10 : Digits[k] = c

DigitVal(c) == (CHOOSE k \in 1..10 : Digits[k] = c) - 1

DigitChar(n) == Digits[n + 1]

RECURSIVE LStrip(_)
LStrip(s) == IF s # <<>> /\ Head(s) = " " THEN LStrip(Tail(s)) ELSE s

RECURSIVE RStrip(_)
RStrip(s) ==
  IF s # <<>> /\ s[Len(s)] = " " THEN RStrip(SubSeq(s, 1, Len(s) - 1)) ELSE s

\* str.strip(); int() and float() strip the same way
Strip(s) == RStrip(LStrip(s))

AllDigits(s) == \A k \in 1..Len(s) : IsDigit(s[k])

RECURSIVE DigitsVal(_)
DigitsVal(s) ==
  IF s = <<>> THEN 0
  ELSE DigitsVal(SubSeq(s, 1, Len(s) - 1)) * 10 + DigitVal(s[Len(s)])

HasSign(t) == t # <<>> /\ t[1] \in {"-", "+"}

Unsigned(t) == IF HasSign(t) THEN Tail(t) ELSE t

Signed(t, n) == IF t # <<>> /\ t[1] = "-" THEN 0 - n ELSE n

\* int(text): ok is FALSE where Python raises ValueError
ParseInt(s) ==
  LET t == Strip(s)
      body == Unsigned(t)
      ok == body # <<>> /\ AllDigits(body)
  IN [ok |-> ok, val |-> IF ok THEN Signed(t, DigitsVal(body)) ELSE 0]

RECURSIVE NatToStr(_)
NatToStr(n) ==
  IF n < 10 THEN <<DigitChar(n)>>
  ELSE NatToStr(n \div 10) \o <<DigitChar(n % 10)>>

\* str(int)
IntToStr(n) == IF n < 0 THEN <<"-">> \o NatToStr(0 - n) ELSE NatToStr(n)

RECURSIVE ZeroPad(_, _)
ZeroPad(s, width) == IF Len(s) >= width THEN s ELSE ZeroPad(<<"0">> \o s, width)

\* f"{n:03}"
FormatId(n) == ZeroPad(IntToStr(n), 3)

DotAt(s) == IF \E k \in 1..Len(s) : s[k] = "."
            THEN CHOOSE k \in 1..Len(s) : s[k] = "." /\ \A j \in 1..(k - 1) : s[j] # "."
            ELSE 0

RECURSIVE PadRight(_, _)
PadRight(s, width) == IF Len(s) >= width THEN s ELSE PadRight(s \o <<"0">>, width)

\* float(text), in thousandths: ok is FALSE where Python raises ValueError
ParseFloat(s) ==
  LET t == Strip(s)
      body == Unsigned(t)
      dot == DotAt(body)
      whole == IF dot = 0 THEN body ELSE SubSeq(body, 1, dot - 1)
      frac == IF dot = 0 THEN <<>> ELSE SubSeq(body, dot + 1, Len(body))
      ok == /\ AllDigits(whole) /\ AllDigits(frac)
            /\ Len(whole) + Len(frac) > 0
            /\ Len(frac) <= 3
  IN [ok |-> ok,
      val |-> IF ok
              THEN Signed(t, DigitsVal(whole) * 1000 + DigitsVal(PadRight(frac, 3)))
              ELSE 0]

\* round(x, 2) of x given in thousandths; the result in hundredths
Round2(m) ==
  LET q == m \div 10
      r == m % 10
  IN IF r < 5 THEN q
     ELSE IF r > 5 THEN q + 1
     ELSE IF q % 2 = 0 THEN q ELSE q + 1

\* str(float) of a value given in hundredths: "25.0", "1.5", "0.05", "-0.01"
FormatFloat(c) ==
  LET a == IF c < 0 THEN 0 - c ELSE c
      f == a % 100
      fr == IF f % 10 = 0 THEN <<DigitChar(f \div 10)>>
            ELSE <<DigitChar(f \div 10), DigitChar(f % 10)>>
  IN (IF c < 0 THEN <<"-">> ELSE <<>>) \o NatToStr(a \div 100) \o <<".">> \o fr

Upper == <<"A", "B", "C", "D", "E", "F", "G", "H", "I", "J", "K", "L", "M",
           "N", "O", "P", "Q", "R", "S", "T", "U", "V", "W", "X", "Y", "Z">>

Lowercase == <<"a", "b", "c", "d", "e", "f", "g", "h", "i", "j", "k", "l", "m",
               "n", "o", "p", "q", "r", "s", "t", "u", "v", "w", "x", "y", "z">>

LowerChar(c) ==
  IF \E k \in 1..26 : Upper[k] = c
  THEN Lowercase[CHOOSE k \in 1..26 : Upper[k] = c]
  ELSE c

\* text.lower()
Lower(s) == [k \in 1..Len(s) |-> LowerChar(s[k])]

\* part in text
Contains(text, part) ==
  \E start \in 1..(Len(text) - Len(part) + 1) :
    SubSeq(text, start, start + Len(part) - 1) = part

\* the characters of a date, in the order of their code points
DateChars == <<"-", "0", "1", "2", "3", "4", "5", "6", "7", "8", "9">>

CharRank(c) == CHOOSE k \in 1..Len(DateChars) : DateChars[k] = c

\* a < b for two texts: the first differing character decides, a proper
\* prefix comes first
RECURSIVE TextLess(_, _)
TextLess(a, b) ==
  IF b = <<>> THEN FALSE
  ELSE IF a = <<>> THEN TRUE
  ELSE IF Head(a) = Head(b) THEN TextLess(Tail(a), Tail(b))
  ELSE CharRank(Head(a)) < CharRank(Head(b))

\* sorted(texts)
RECURSIVE Sorted(_)
Sorted(S) ==
  IF S = {} THEN <<>>
  ELSE LET least == CHOOSE x \in S : \A y \in S \ {x} : TextLess(x, y)
       IN <<least>> \o Sorted(S \ {least})

StartsWithDollar(s) == s # <<>> /\ s[1] = "$"

\* text.replace("$", "")
RemoveDollar(s) == SelectSeq(s, LAMBDA c : c # "$")

\* f"${price}" unless the text starts with "$" already
NormalizePrice(s) == IF StartsWithDollar(s) THEN s ELSE <<"$">> \o s

\* float(price.replace("$", ""))
UnitPrice(price) == ParseFloat(RemoveDollar(price))

\* str(round(quantity_num * price_num, 2))
Investment(quantity_num, price_num) == FormatFloat(Round2(quantity_num * price_num))

\* datetime.date.today().isoformat(), the clock staying within one month
IsoDate(day) ==
  <<"2", "0", "2", "6", "-", "1", "1", "-">> \o ZeroPad(IntToStr(day), 2)

----------------------------------------------------------------------------
(* The two files *)

\* read_items: csv.DictReader gives every row as a dict of the texts written
read_items == store

\* variant: rows of the file that the list does not have stay in the file
write_items_keeping(items, io) ==
  items \o SelectSeq(store, LAMBDA r : \A k \in 1..Len(items) : items[k].id # r.id)

\* write_items under the outcome io of the file system: open(DATA_FILE, "w")
\* truncates the file before any row is written
write_items(items, io) ==
  CASE io = "ok" -> items
    [] io = "store_open_fail" -> store
    [] io = "store_write_fail" -> <<>>
    [] OTHER -> items

\* the row add_sale_record writes
SaleRow(day, item_id, item_name, qty, amount) ==
  [date |-> IsoDate(day),
   item_id |-> item_id,
   item_name |-> item_name,
   sold_quantity |-> IntToStr(qty),
   amount |-> FormatFloat(Round2(amount))]

\* variant: the sales file is opened for writing, not for appending
add_sale_record_truncating(day, item_id, item_name, qty, amount, io) ==
  IF io = "ledger_fail" THEN ledger
  ELSE <<SaleRow(day, item_id, item_name, qty, amount)>>

\* add_sale_record: opened in append mode, a failed write leaves the file as it was
add_sale_record(day, item_id, item_name, qty, amount, io) ==
  IF io = "ledger_fail" THEN ledger
  ELSE Append(ledger, SaleRow(day, item_id, item_name, qty, amount))

----------------------------------------------------------------------------
(* Requests and responses *)

\* an optional request key: <<>> when the key is absent, <<text>> when present
None == <<>>
Some(s) == <<s>>

\* a request is taken up, counted against the length of the run
Serve == served < MaxServed /\ served' = served + 1

Request(op, item_id, name, quantity, price, sold) ==
  [op |-> op, item_id |-> item_id, name |-> name, quantity |-> quantity,
   price |-> price, sold |-> sold, query |-> <<>>]

\* GET /items/search?query=...
SearchRequest(query) ==
  [Request("search", <<>>, None, None, None, None) EXCEPT !.query = query]

Response(status, detail, info) == [status |-> status, detail |-> detail, info |-> info]

\* an exception no handler catches: the framework answers 500
ServerError == Response(500, "Internal Server Error", <<>>)

\* first row with this id (the loops break at the first match); 0 when there is none
\* variant: an id that is not in the file is taken for the last row
FindOrLast(items, item_id) ==
  IF \E k \in 1..Len(items) : items[k].id = item_id
  THEN CHOOSE k \in 1..Len(items) :
         items[k].id = item_id /\ \A j \in 1..(k - 1) : items[j].id # item_id
  ELSE Len(items)

Find(items, item_id) ==
  IF \E k \in 1..Len(items) : items[k].id = item_id
  THEN CHOOSE k \in 1..Len(items) :
         items[k].id = item_id /\ \A j \in 1..(k - 1) : items[j].id # item_id
  ELSE 0

\* max(..., default=0)
MaxOf(S) == IF S = {} THEN 0 ELSE CHOOSE y \in S : \A z \in S : z <= y

----------------------------------------------------------------------------
(* add_item *)

MinAddQuantity == 10

\* variant: the minimum itself is turned away
BelowMinimumInclusive(quantity_num) == quantity_num <= MinAddQuantity

\* int(item["quantity"]) < 10
BelowMinimum(quantity_num) == quantity_num < MinAddQuantity

\* variant: the id is taken from the number of rows
NextIdByCount(items) == FormatId(Len(items) + 1)

\* max([int(i['id']) for i in items], default=0)+1, formatted; "001" for no items
NextId(items) ==
  IF items = <<>> THEN <<"0", "0", "1">>
  ELSE FormatId(MaxOf({ParseInt(items[k].id).val : k \in 1..Len(items)}) + 1)

\* the checks add_item makes before it reads the file
AddCheck(quantity, price) ==
  LET q == ParseInt(quantity)
      p == UnitPrice(NormalizePrice(price))
  IN IF ~q.ok THEN ServerError
     ELSE IF BelowMinimum(q.val)
          THEN Response(400, "Quantity must be 10 or more", <<>>)
     ELSE IF ~p.ok THEN ServerError
     ELSE Response(200, "Item added", <<>>)

\* the row add_item builds
\* variant: the price is stored as it was sent
NewItemRawPrice(id, name, quantity, price) ==
  [id |-> id,
   name |-> name,
   quantity |-> quantity,
   price |-> price,
   total_investment |->
     Investment(ParseInt(quantity).val, UnitPrice(NormalizePrice(price)).val),
   sold |-> <<"0">>]

NewItem(id, name, quantity, price) ==
  [id |-> id,
   name |-> name,
   quantity |-> quantity,
   price |-> NormalizePrice(price),
   total_investment |->
     Investment(ParseInt(quantity).val, UnitPrice(NormalizePrice(price)).val),
   sold |-> <<"0">>]

add_item(name, quantity, price, io) ==
  LET chk == AddCheck(quantity, price)
      items == read_items
      next_id == NextId(items)
  IN /\ Serve
     /\ UNCHANGED <<threads, raced>>
     /\ req' = Request("add", <<>>, Some(name), Some(quantity), Some(price), None)
     /\ UNCHANGED <<ledger, today>>
     /\ IF chk.status # 200
        THEN /\ resp' = chk
             /\ UNCHANGED <<store, issued>>
        ELSE /\ Len(items) < MaxItems
             /\ ParseInt(next_id).val <= MaxId
             /\ store' = write_items(Append(items, NewItem(next_id, name, quantity, price)), io)
             /\ IF io = "ok"
                THEN /\ resp' = Response(200, "Item added", next_id)
                     /\ issued' = issued \cup {next_id}
                ELSE /\ resp' = ServerError
                     /\ UNCHANGED issued

----------------------------------------------------------------------------
(* update_item *)

\* item.get(key, old)
Get(opt, old) == IF Len(opt) = 0 THEN old ELSE opt[1]

\* variant: the row is rebuilt and its sold counter starts again
UpdatedItemResetsSold(i, name, quantity, price) ==
  LET q == Get(quantity, i.quantity)
      p == NormalizePrice(Get(price, i.price))
  IN [i EXCEPT !.name = Get(name, i.name),
               !.quantity = q,
               !.price = p,
               !.total_investment = Investment(ParseInt(q).val, UnitPrice(p).val),
               !.sold = <<"0">>]

\* the row as update_item leaves it in memory
\* variant: total_investment is left as it was
UpdatedItemKeepsInvestment(i, name, quantity, price) ==
  LET q == Get(quantity, i.quantity)
      p == NormalizePrice(Get(price, i.price))
  IN [i EXCEPT !.name = Get(name, i.name),
               !.quantity = q,
               !.price = p]

UpdatedItem(i, name, quantity, price) ==
  LET q == Get(quantity, i.quantity)
      p == NormalizePrice(Get(price, i.price))
  IN [i EXCEPT !.name = Get(name, i.name),
               !.quantity = q,
               !.price = p,
               !.total_investment = Investment(ParseInt(q).val, UnitPrice(p).val)]

\* float(i["price"]...) and int(i["quantity"]) both have to succeed
UpdateParses(i, quantity, price) ==
  /\ UnitPrice(NormalizePrice(Get(price, i.price))).ok
  /\ ParseInt(Get(quantity, i.quantity)).ok

update_item(item_id, name, quantity, price, io) ==
  LET items == read_items
      k == Find(items, item_id)
  IN /\ Serve
     /\ UNCHANGED <<threads, raced>>
     /\ req' = Request("update", item_id, name, quantity, price, None)
     /\ UNCHANGED <<ledger, today, issued>>
     /\ IF k = 0
        THEN /\ resp' = Response(404, "Item not found", <<>>)
             /\ UNCHANGED store
        ELSE IF ~UpdateParses(items[k], quantity, price)
        THEN /\ resp' = ServerError
             /\ UNCHANGED store
        ELSE /\ store' = write_items(
                  [items EXCEPT ![k] = UpdatedItem(items[k], name, quantity, price)], io)
             /\ resp' = IF io = "ok" THEN Response(200, "Item updated", <<>>)
                        ELSE ServerError

----------------------------------------------------------------------------
(* delete_item *)

\* [i for i in items if i["id"] != item_id]
Without(items, item_id) == SelectSeq(items, LAMBDA i : i.id # item_id)

delete_item(item_id, io) ==
  LET items == read_items
      new_items == Without(items, item_id)
  IN /\ Serve
     /\ UNCHANGED <<threads, raced>>
     /\ req' = Request("delete", item_id, None, None, None, None)
     /\ UNCHANGED <<ledger, today, issued>>
     /\ IF Len(new_items) = Len(items)
        THEN /\ resp' = Response(404, "Item not found", <<>>)
             /\ UNCHANGED store
        ELSE /\ store' = write_items(new_items, io)
             /\ resp' = IF io = "ok" THEN Response(200, "Item deleted", <<>>)
                        ELSE ServerError

----------------------------------------------------------------------------
(* sell_item *)

SellFailure(status, detail, info) ==
  [status |-> status, detail |-> detail, info |-> info,
   idx |-> 0, sold_qty |-> 0, price_per_unit |-> 0]

\* variant: one unit more than the stock is let through
NotEnoughStockOffByOne(sold_qty, current_qty) == sold_qty > current_qty + 1

\* the days the clock shows
Days == 9 .. (8 + MaxDay)

\* sold_qty > current_qty
NotEnoughStock(sold_qty, current_qty) == sold_qty > current_qty

\* variant: the price is read before the stock is compared
SellCheckPriceFirst(items, item_id, sold) ==
  LET raw == sold[1]
      sold_qty == ParseInt(raw)
      k == Find(items, item_id)
      current_qty == ParseInt(items[k].quantity)
      price_per_unit == UnitPrice(items[k].price)
  IN IF Len(sold) = 0 \/ Strip(raw) = <<>>
     THEN SellFailure(400, "Sold quantity is required", <<>>)
     ELSE IF ~sold_qty.ok
     THEN SellFailure(400, "Sold quantity must be a valid integer", <<>>)
     ELSE IF sold_qty.val <= 0
     THEN SellFailure(400, "Sold quantity must be a positive integer", <<>>)
     ELSE IF k = 0
     THEN SellFailure(404, "Item not found", <<>>)
     ELSE IF ~current_qty.ok
     THEN SellFailure(500, "Invalid inventory quantity", <<>>)
     ELSE IF ~price_per_unit.ok
     THEN SellFailure(500, "Invalid item price", <<>>)
     ELSE IF NotEnoughStock(sold_qty.val, current_qty.val)
     THEN SellFailure(400, "Not enough stock. Available: ", IntToStr(current_qty.val))
     ELSE [status |-> 200, detail |-> " units sold", info |-> IntToStr(sold_qty.val),
           idx |-> k, sold_qty |-> sold_qty.val, price_per_unit |-> price_per_unit.val]

\* the checks of sell_item, in the order the handler makes them; when all
\* pass: the row found, the quantity sold and the unit price
SellCheck(items, item_id, sold) ==
  LET raw == sold[1]
      sold_qty == ParseInt(raw)
      k == Find(items, item_id)
      current_qty == ParseInt(items[k].quantity)
      price_per_unit == UnitPrice(items[k].price)
  IN IF Len(sold) = 0 \/ Strip(raw) = <<>>
     THEN SellFailure(400, "Sold quantity is required", <<>>)
     ELSE IF ~sold_qty.ok
     THEN SellFailure(400, "Sold quantity must be a valid integer", <<>>)
     ELSE IF sold_qty.val <= 0
     THEN SellFailure(400, "Sold quantity must be a positive integer", <<>>)
     ELSE IF k = 0
     THEN SellFailure(404, "Item not found", <<>>)
     ELSE IF ~current_qty.ok
     THEN SellFailure(500, "Invalid inventory quantity", <<>>)
     ELSE IF NotEnoughStock(sold_qty.val, current_qty.val)
     THEN SellFailure(400, "Not enough stock. Available: ", IntToStr(current_qty.val))
     ELSE IF ~price_per_unit.ok
     THEN SellFailure(500, "Invalid item price", <<>>)
     ELSE [status |-> 200, detail |-> " units sold", info |-> IntToStr(sold_qty.val),
           idx |-> k, sold_qty |-> sold_qty.val, price_per_unit |-> price_per_unit.val]

\* int(item.get("sold", "0")) and float(item["total_investment"]) both have to succeed
SellParses(item) == ParseInt(item.sold).ok /\ ParseFloat(item.total_investment).ok

\* variant: the sold counter is set to this sale instead of added to
SoldItemSetsSold(item, sold_qty, price_per_unit) ==
  [item EXCEPT
     !.quantity = IntToStr(ParseInt(item.quantity).val - sold_qty),
     !.sold = IntToStr(sold_qty),
     !.total_investment =
        FormatFloat(Round2(ParseFloat(item.total_investment).val
                             - sold_qty * price_per_unit))]

\* the row as sell_item leaves it in memory
\* variant: the quantity in stock is left as it was
SoldItemKeepsQuantity(item, sold_qty, price_per_unit) ==
  [item EXCEPT
     !.sold = IntToStr(ParseInt(item.sold).val + sold_qty),
     !.total_investment =
        FormatFloat(Round2(ParseFloat(item.total_investment).val
                             - sold_qty * price_per_unit))]

SoldItem(item, sold_qty, price_per_unit) ==
  [item EXCEPT
     !.quantity = IntToStr(ParseInt(item.quantity).val - sold_qty),
     !.sold = IntToStr(ParseInt(item.sold).val + sold_qty),
     !.total_investment =
        FormatFloat(Round2(ParseFloat(item.total_investment).val
                             - sold_qty * price_per_unit))]

\* day is what datetime.date.today() shows when add_sale_record reads it: the
\* clock is read nowhere else, and it never runs backwards
sell_item(item_id, sold, io) ==
  LET items == read_items
      chk == SellCheck(items, item_id, sold)
      item == items[chk.idx]
  IN /\ Serve
     /\ UNCHANGED <<threads, raced>>
     /\ req' = Request("sell", item_id, None, None, None, sold)
     /\ UNCHANGED issued
     /\ IF chk.status # 200
        THEN /\ resp' = Response(chk.status, chk.detail, chk.info)
             /\ UNCHANGED <<store, ledger, today>>
        ELSE IF ~SellParses(item)
        THEN /\ resp' = ServerError
             /\ UNCHANGED <<store, ledger, today>>
        ELSE /\ Len(ledger) < MaxLedger
             /\ \E day \in Days :
                  /\ day >= today
                  /\ today' = day
                  /\ ledger' = add_sale_record(day, item_id, item.name, chk.sold_qty,
                                               chk.sold_qty * chk.price_per_unit, io)
             /\ IF io = "ledger_fail"
                THEN /\ resp' = ServerError
                     /\ UNCHANGED store
                ELSE /\ store' = write_items(
                          [items EXCEPT ![chk.idx] =
                             SoldItem(item, chk.sold_qty, chk.price_per_unit)], io)
                     /\ resp' = IF io = "ok"
                                THEN Response(200, chk.detail, chk.info)
                                ELSE ServerError

----------------------------------------------------------------------------
(* get_items and search_items *)

get_items ==
  /\ Serve
  /\ UNCHANGED <<threads, raced>>
  /\ req' = Request("list", <<>>, None, None, None, None)
  /\ resp' = Response(200, "", read_items)
  /\ UNCHANGED <<store, ledger, today, issued>>

\* variant: only the name is searched
MatchesNameOnly(item, query_lower) ==
  Contains(Lower(item.name), query_lower)

\* query_lower in item["name"].lower() or query_lower in item["id"].lower()
Matches(item, query_lower) ==
  Contains(Lower(item.name), query_lower) \/ Contains(Lower(item.id), query_lower)

\* the rows search_items returns, in the order of the file
SearchResult(items, query) ==
  SelectSeq(items, LAMBDA item : Matches(item, Lower(query)))

search_items(query) ==
  /\ Serve
  /\ UNCHANGED <<threads, raced>>
  /\ req' = SearchRequest(query)
  /\ resp' = Response(200, "", SearchResult(read_items, query))
  /\ UNCHANGED <<store, ledger, today, issued>>

----------------------------------------------------------------------------
(* items_analysis *)

LOW_STOCK_THRESHOLD == 5

\* variant: a quantity equal to the threshold is not low
LowStockBelow(quantity_num) == quantity_num < LOW_STOCK_THRESHOLD

\* int(i["quantity"]) <= LOW_STOCK_THRESHOLD
LowStock(quantity_num) == quantity_num <= LOW_STOCK_THRESHOLD

\* sum(float(i["total_investment"]) for i in items), in thousandths
RECURSIVE SumInvestment(_)
SumInvestment(items) ==
  IF items = <<>> THEN 0
  ELSE ParseFloat(Head(items).total_investment).val + SumInvestment(Tail(items))

\* sum(1 for i in items if int(i["quantity"]) <= LOW_STOCK_THRESHOLD)
RECURSIVE CountLowStock(_)
CountLowStock(items) ==
  IF items = <<>> THEN 0
  ELSE (IF LowStock(ParseInt(Head(items).quantity).val) THEN 1 ELSE 0)
       + CountLowStock(Tail(items))

\* float() and int() have to succeed on every row
AnalysisParses(items) ==
  \A k \in 1..Len(items) :
    ParseFloat(items[k].total_investment).ok /\ ParseInt(items[k].quantity).ok

\* the totals; total_investment in hundredths
Analysis(items) ==
  [total_items |-> Len(items),
   total_investment |-> Round2(SumInvestment(items)),
   low_stock_count |-> CountLowStock(items)]

items_analysis ==
  LET items == read_items
  IN /\ Serve
     /\ UNCHANGED <<threads, raced>>
     /\ req' = Request("analysis", <<>>, None, None, None, None)
     /\ resp' = IF AnalysisParses(items) THEN Response(200, "", Analysis(items))
                ELSE ServerError
     /\ UNCHANGED <<store, ledger, today, issued>>

----------------------------------------------------------------------------
(* sales_history *)

\* variant: the quantity replaces the total of the date
AddSaleOverwrites(sales, date, qty) ==
  IF date \in DOMAIN sales THEN [sales EXCEPT ![date] = qty]
  ELSE (date :> qty) @@ sales

\* if date not in sales: sales[date] = 0;  sales[date] += qty
AddSale(sales, date, qty) ==
  IF date \in DOMAIN sales THEN [sales EXCEPT ![date] = @ + qty]
  ELSE (date :> qty) @@ sales

\* the dict the loop over the rows of the sales file builds
RECURSIVE SalesDict(_)
SalesDict(rows) ==
  IF rows = <<>> THEN <<>>
  ELSE LET row == rows[Len(rows)]
       IN AddSale(SalesDict(SubSeq(rows, 1, Len(rows) - 1)),
                  row.date, ParseInt(row.sold_quantity).val)

\* [{"date": d, "sold": sales[d]} for d in sorted(sales.keys())]
ChartData(rows) ==
  LET sales == SalesDict(rows)
      dates == Sorted(DOMAIN sales)
  IN [k \in 1..Len(dates) |-> [date |-> dates[k], sold |-> sales[dates[k]]]]

sales_history ==
  /\ Serve
  /\ UNCHANGED <<threads, raced>>
  /\ req' = Request("history", <<>>, None, None, None, None)
  /\ resp' = IF \A k \in 1..Len(ledger) : ParseInt(ledger[k].sold_quantity).ok
             THEN Response(200, "", ChartData(ledger))
             ELSE ServerError
  /\ UNCHANGED <<store, ledger, today, issued>>

----------------------------------------------------------------------------
(* Requests the clients send *)

Names == {<<"a", "b">>}

Ids == {FormatId(n) : n \in 1..MaxId}

AddQuantities == {<<"9">>, <<"1", "0">>}

Prices == {<<"2", ".", "5">>, <<"$", "0", ".", "0", "0", "6">>, <<"a", "b", "c">>}

UpdateFields(name, quantity, price) == [name |-> name, quantity |-> quantity, price |-> price]

\* the bodies of the update requests: any of the three keys may be absent
UpdateBodies ==
  {UpdateFields(None, None, None),
   UpdateFields(Some(<<"A", "0", "0", "2">>), None, None),
   UpdateFields(None, Some(<<"6">>), None),
   UpdateFields(None, Some(<<"-", "1">>), None),
   UpdateFields(None, Some(<<"x">>), None),
   UpdateFields(None, None, Some(<<"0", ".", "0", "0", "4">>)),
   UpdateFields(Some(<<"A", "0", "0", "2">>), Some(<<"6">>), Some(<<"$", "2", ".", "5">>))}

\* the texts searched for: the ids, and a letter of a name
Queries == Ids \cup {<<"a">>}

SoldValues == {None, Some(<<" ">>), Some(<<"x">>), Some(<<"0">>),
               Some(<<"1">>), Some(<<" ", "3">>), Some(<<"1", "3">>)}

\* what the file system can do to a request
IOOutcomes == {"ok", "ledger_fail", "store_open_fail", "store_write_fail"}

StoreOutcomes(outcomes) == outcomes \ {"ledger_fail"}

----------------------------------------------------------------------------
(* Specifications *)

\* the threads of the pool that run the handlers
Threads == {1, 2}

NoRequest == Request("none", <<>>, None, None, None, None)

NoResponse == Response(0, "", <<>>)

\* a thread that runs no handler
Idle == [pc |-> "idle", req |-> NoRequest, resp |-> NoResponse,
         loaded |-> <<>>, items |-> <<>>]

\* the module's start-up code has created both files with their header rows
Init ==
  /\ store = <<>>
  /\ ledger = <<>>
  /\ today = 9
  /\ req = NoRequest
  /\ resp = NoResponse
  /\ issued = {}
  /\ served = 0
  /\ threads = [t \in Threads |-> Idle]
  /\ raced = {}

Add(outcomes) ==
  \E name \in Names, quantity \in AddQuantities, price \in Prices,
     io \in StoreOutcomes(outcomes) :
    add_item(name, quantity, price, io)

Update(outcomes) ==
  \E item_id \in Ids, item \in UpdateBodies, io \in StoreOutcomes(outcomes) :
    update_item(item_id, item.name, item.quantity, item.price, io)

Delete(outcomes) ==
  \E item_id \in Ids, io \in StoreOutcomes(outcomes) : delete_item(item_id, io)

Sell(outcomes) ==
  \E item_id \in Ids, sold \in SoldValues, io \in outcomes :
    sell_item(item_id, sold, io)

Search == \E query \in Queries : search_items(query)

\* the requests that only read
Read == get_items \/ Search \/ items_analysis \/ sales_history

\* every write succeeds
Next == Add({"ok"}) \/ Update({"ok"}) \/ Delete({"ok"}) \/ Sell({"ok"}) \/ Read

Spec == Init /\ [][Next]_vars

\* a write to either file may fail
NextIO ==
  \/ Add(IOOutcomes) \/ Update(IOOutcomes) \/ Delete(IOOutcomes) \/ Sell(IOOutcomes)
  \/ Read

SpecIO == Init /\ [][NextIO]_vars

Row(id, name, quantity, price, total_investment, sold) ==
  [id |-> id, name |-> name, quantity |-> quantity, price |-> price,
   total_investment |-> total_investment, sold |-> sold]

\* inventory files found at start-up (the start-up code keeps a file that exists):
\* rows whose quantity, price or sold text is not a number
FoundFiles ==
  {<<Row(<<"0", "0", "1">>, <<"a", "b">>, <<"x">>, <<"$", "n", "a">>,
         <<"0", ".", "0">>, <<"0">>),
     Row(<<"0", "0", "2">>, <<"c">>, <<"2">>, <<"$", "n", "a">>,
         <<"5", ".", "0">>, <<"0">>)>>,
   <<Row(<<"0", "0", "1">>, <<"a", "b">>, <<"2">>, <<"$", "2", ".", "5">>,
         <<"5", ".", "0">>, <<"n", "a">>)>>}

InitFile ==
  /\ store \in FoundFiles
  /\ ledger = <<>>
  /\ today = 9
  /\ req = NoRequest
  /\ resp = NoResponse
  /\ issued = {}
  /\ served = 0
  /\ threads = [t \in Threads |-> Idle]
  /\ raced = {}

SpecFile == InitFile /\ [][Next]_vars

----------------------------------------------------------------------------
(* Handlers running at the same time.  The handlers are plain functions,  *)
(* which the framework runs on the threads of a pool, and nothing in the  *)
(* module serialises them: between the file operations of one handler     *)
(* (read_items, add_sale_record, write_items) the file operations of      *)
(* another may run.  Each file operation is one step.                     *)

InFlight(t) == threads[t].pc \in {"loaded", "recorded"}

\* the operations that overlap when thread t reads the items file now
Overlap(t, op) ==
  LET others == {threads[u].req.op : u \in {v \in Threads \ {t} : InFlight(v)}}
  IN IF others = {} THEN {} ELSE others \cup {op}

\* the sales read and checked but not yet recorded
Unrecorded ==
  Cardinality({t \in Threads : threads[t].pc = "loaded" /\ threads[t].req.op = "sell"})

\* add_item up to items.append(...)
add_item_reads(t, name, quantity, price) ==
  LET items == read_items
      next_id == NextId(items)
      rq == Request("add", <<>>, Some(name), Some(quantity), Some(price), None)
  IN /\ ~InFlight(t)
     /\ AddCheck(quantity, price).status = 200
     /\ Len(items) < MaxItems
     /\ ParseInt(next_id).val <= MaxId
     /\ threads' = [threads EXCEPT ![t] =
          [pc |-> "loaded", req |-> rq, resp |-> NoResponse, loaded |-> items,
           items |-> Append(items, NewItem(next_id, name, quantity, price))]]
     /\ raced' = raced \cup Overlap(t, "add")
     /\ UNCHANGED <<store, ledger, today, req, resp, issued, served>>

\* write_items(items) and the answer of add_item
add_item_writes(t) ==
  /\ threads[t].pc = "loaded"
  /\ threads[t].req.op = "add"
  /\ store' = write_items(threads[t].items, "ok")
  /\ threads' = [threads EXCEPT
       ![t] = [pc |-> "done", req |-> threads[t].req,
               resp |-> Response(200, "Item added",
                                 threads[t].items[Len(threads[t].items)].id),
               loaded |-> <<>>, items |-> <<>>]]
  /\ UNCHANGED <<ledger, today, req, resp, issued, served, raced>>

\* sell_item up to the update of the row in its own list
sell_item_reads(t, item_id, sold) ==
  LET items == read_items
      chk == SellCheck(items, item_id, sold)
      rq == Request("sell", item_id, None, None, None, sold)
  IN /\ ~InFlight(t)
     /\ IF chk.status # 200
        THEN /\ threads' = [threads EXCEPT ![t] =
                  [pc |-> "done", req |-> rq,
                   resp |-> Response(chk.status, chk.detail, chk.info),
                   loaded |-> <<>>, items |-> <<>>]]
             /\ UNCHANGED raced
        ELSE /\ SellParses(items[chk.idx])
             /\ Len(ledger) + Unrecorded < MaxLedger
             /\ threads' = [threads EXCEPT ![t] =
                  [pc |-> "loaded", req |-> rq, resp |-> NoResponse, loaded |-> items,
                   items |-> [items EXCEPT ![chk.idx] =
                                SoldItem(items[chk.idx], chk.sold_qty, chk.price_per_unit)]]]
             /\ raced' = raced \cup Overlap(t, "sell")
     /\ UNCHANGED <<store, ledger, today, req, resp, issued, served>>

\* add_sale_record(...) of sell_item
sell_item_records(t) ==
  LET chk == SellCheck(threads[t].loaded, threads[t].req.item_id, threads[t].req.sold)
  IN /\ threads[t].pc = "loaded"
     /\ threads[t].req.op = "sell"
     /\ \E day \in Days :
          /\ day >= today
          /\ today' = day
          /\ ledger' = add_sale_record(day, threads[t].req.item_id,
                                       threads[t].loaded[chk.idx].name, chk.sold_qty,
                                       chk.sold_qty * chk.price_per_unit, "ok")
     /\ threads' = [threads EXCEPT ![t].pc = "recorded"]
     /\ UNCHANGED <<store, req, resp, issued, served, raced>>

\* write_items(items) and the answer of sell_item
sell_item_writes(t) ==
  LET chk == SellCheck(threads[t].loaded, threads[t].req.item_id, threads[t].req.sold)
  IN /\ threads[t].pc = "recorded"
     /\ store' = write_items(threads[t].items, "ok")
     /\ threads' = [threads EXCEPT
          ![t] = [pc |-> "done", req |-> threads[t].req,
                  resp |-> Response(200, chk.detail, chk.info),
                  loaded |-> <<>>, items |-> <<>>]]
     /\ UNCHANGED <<ledger, today, req, resp, issued, served, raced>>

\* what the threads are asked to do
ThreadAdds == {[name |-> <<"a", "b">>, quantity |-> <<"1", "0">>,
                price |-> <<"2", ".", "5">>]}

ThreadSold == {Some(<<"1">>), Some(<<"6">>)}

\* the ids of the first two rows added
ThreadIds == {FormatId(1), FormatId(2)}

AddReads == \E t \in Threads, a \in ThreadAdds :
              add_item_reads(t, a.name, a.quantity, a.price)

AddWrites == \E t \in Threads : add_item_writes(t)

SellReads == \E t \in Threads, item_id \in ThreadIds, sold \in ThreadSold :
               sell_item_reads(t, item_id, sold)

SellRecords == \E t \in Threads : sell_item_records(t)

SellWrites == \E t \in Threads : sell_item_writes(t)

NextThreads == AddReads \/ AddWrites \/ SellReads \/ SellRecords \/ SellWrites

SpecThreads == Init /\ [][NextThreads]_vars

----------------------------------------------------------------------------
(* Readings of a row and of a request, used by the properties below *)

Qty(r) == ParseInt(r.quantity).val

SoldOf(r) == ParseInt(r.sold).val

\* total_investment, in thousandths
InvestmentOf(r) == ParseFloat(r.total_investment).val

\* the unit price, in thousandths
PriceOf(r) == UnitPrice(r.price).val

\* the step answers a request
Answered == served' = served + 1

SoldQty(rq) == ParseInt(rq.sold[1]).val

\* the first of the seven validation steps of a sale that the request rq
\* fails against the rows items; 0 when it passes them all
FirstViolated(items, rq) ==
  LET k == Find(items, rq.item_id)
  IN IF Len(rq.sold) = 0 \/ Strip(rq.sold[1]) = <<>> THEN 1
     ELSE IF ~ParseInt(rq.sold[1]).ok THEN 2
     ELSE IF SoldQty(rq) <= 0 THEN 3
     ELSE IF \A j \in 1..Len(items) : items[j].id # rq.item_id THEN 4
     ELSE IF ~ParseInt(items[k].quantity).ok THEN 5
     ELSE IF SoldQty(rq) > Qty(items[k]) THEN 6
     ELSE IF ~UnitPrice(items[k].price).ok THEN 7
     ELSE 0

IsPrefix(a, b) == Len(a) <= Len(b) /\ SubSeq(b, 1, Len(a)) = a

----------------------------------------------------------------------------
(* C1 *)

SaleApplied ==
  LET k == Find(store, req'.item_id)
      s == SoldQty(req')
      p == PriceOf(store[k])
      e == ledger'[Len(ledger')]
  IN /\ resp'.status = 200
     /\ Len(store') = Len(store)
     /\ Qty(store'[k]) = Qty(store[k]) - s
     /\ SoldOf(store'[k]) = SoldOf(store[k]) + s
     /\ InvestmentOf(store'[k]) = 10 * Round2(InvestmentOf(store[k]) - s * p)
     /\ Len(ledger') = Len(ledger) + 1
     /\ IsPrefix(ledger, ledger')
     /\ e.item_id = req'.item_id
     /\ e.item_name = store[k].name
     /\ ParseInt(e.sold_quantity).val = s
     /\ ParseFloat(e.amount).val = 10 * Round2(s * p)

\* C1: a sale that passes all seven validations lowers the row's quantity by
\* the quantity sold, raises its sold counter by it, lowers total_investment
\* by quantity sold times unit price (rounded to 2 decimals), and appends
\* exactly one ledger row with the item id, the row's name, the quantity sold
\* and the amount round(quantity sold * unit price, 2).
C1_SaleEffect ==
  [][(req'.op = "sell" /\ Answered /\ FirstViolated(store, req') = 0) => SaleApplied]_vars

\* a second sale of a row, at a price with three decimals, has been answered
C1_Witness ==
  /\ req.op = "sell" /\ resp.status = 200
  /\ Len(ledger) = 2
  /\ ledger[2].item_id = req.item_id
  /\ \E k \in 1..Len(store) :
       /\ store[k].id = req.item_id
       /\ SoldOf(store[k]) = 2
       /\ PriceOf(store[k]) = 6

----------------------------------------------------------------------------
(* C2 *)

SalePersisted ==
  LET k == Find(store, req'.item_id)
  IN /\ FirstViolated(store, req') = 0
     /\ Len(store') = Len(store)
     /\ Qty(store'[k]) = Qty(store[k]) - SoldQty(req')
     /\ Len(ledger') = Len(ledger) + 1
     /\ IsPrefix(ledger, ledger')

\* C2: when a sale attempt ends, either the row change is in the inventory
\* file and exactly one ledger row was appended, or both files are as they
\* were before; and a sale is reported successful only with its ledger row
\* written.
C2_AllOrNothing ==
  [][(req'.op = "sell" /\ Answered) =>
       /\ SalePersisted \/ (store' = store /\ ledger' = ledger)
       /\ resp'.status = 200 => Len(ledger') = Len(ledger) + 1]_vars

----------------------------------------------------------------------------
(* C3 *)

\* C3: a sale that fails one of the seven validation steps is refused and
\* leaves the inventory file and the ledger as they were; asking for more
\* than the stock is refused as insufficient stock.
C3_FailedSaleChangesNothing ==
  [][(req'.op = "sell" /\ Answered /\ FirstViolated(store, req') # 0) =>
       /\ store' = store
       /\ ledger' = ledger
       /\ resp'.status # 200
       /\ FirstViolated(store, req') = 6 =>
            /\ resp'.status = 400
            /\ resp'.detail = "Not enough stock. Available: "]_vars

\* a sale of more than the stock of an existing row has been refused
C3_Witness ==
  /\ req.op = "sell"
  /\ resp.status = 400
  /\ resp.detail = "Not enough stock. Available: "
  /\ \E k \in 1..Len(store) :
       /\ store[k].id = req.item_id
       /\ SoldQty(req) > Qty(store[k])
       /\ resp.info = IntToStr(Qty(store[k]))

----------------------------------------------------------------------------
(* C4 *)

\* C4: every row has total_investment = round(quantity * unit price, 2),
\* also after a sale and for prices with more than two decimals.
C4_InvestmentDerived ==
  \A k \in 1..Len(store) :
    InvestmentOf(store[k]) = 10 * Round2(Qty(store[k]) * PriceOf(store[k]))

----------------------------------------------------------------------------
(* C5 *)

\* C5: the id an add returns differs from every id an earlier add returned,
\* also from the ids of rows deleted since.
C5_IdNeverReused ==
  [][(req'.op = "add" /\ Answered /\ resp'.status = 200) => resp'.info \notin issued]_vars

----------------------------------------------------------------------------
(* C6 *)

UniqueIds(items) ==
  \A j, k \in 1..Len(items) : items[j].id = items[k].id => j = k

\* every row that remains is a row there was, whole
RowsOnlyRemoved ==
  \A k \in 1..Len(store') : \E j \in 1..Len(store) : store'[k] = store[j]

\* the rows there were keep their places and their ids
IdsKept ==
  \/ /\ Len(store') >= Len(store)
     /\ \A k \in 1..Len(store) : store'[k].id = store[k].id
  \/ /\ req'.op = "delete" /\ Answered
     /\ RowsOnlyRemoved

\* C6: starting from an empty inventory, no two rows ever have the same id,
\* and no add, update, delete or sale changes the id of an existing row.
C6_IdsUniqueAndFixed == [][UniqueIds(store') /\ IdsKept]_vars

\* two rows, the first one no longer the first row added: a row was deleted
\* and another added after it
C6_Witness ==
  /\ Len(store) = 2
  /\ store[1].id = <<"0", "0", "2">>
  /\ store[2].id = <<"0", "0", "3">>
  /\ req.op = "add" /\ resp.status = 200

----------------------------------------------------------------------------
(* C7 *)

\* C7: every row's quantity is a non-negative integer, whatever integer
\* quantities the requests carry.
C7_QuantityNonNegative ==
  \A k \in 1..Len(store) :
    ParseInt(store[k].quantity).ok /\ Qty(store[k]) >= 0

----------------------------------------------------------------------------
(* C8 *)

\* the sale answered by this step is one of row k
SoldHere(k) ==
  /\ req'.op = "sell" /\ Answered /\ resp'.status = 200
  /\ k = Find(store, req'.item_id)

SoldCounterStep ==
  /\ \A k \in 1..Len(store') :
       ParseInt(store'[k].sold).ok /\ SoldOf(store'[k]) >= 0
  /\ IF req'.op = "delete" /\ Answered
     THEN RowsOnlyRemoved
     ELSE /\ Len(store') >= Len(store)
          /\ \A k \in 1..Len(store) :
               /\ store'[k].id = store[k].id
               /\ SoldOf(store'[k]) =
                    SoldOf(store[k]) + (IF SoldHere(k) THEN SoldQty(req') ELSE 0)
          /\ \A k \in (Len(store) + 1)..Len(store') : SoldOf(store'[k]) = 0

\* C8: from its creation with sold = 0 until its deletion a row's sold
\* counter is a non-negative integer that never decreases: a sale raises it
\* by the quantity sold, and updates, adds and deletes of other rows and
\* failed requests leave it as it was.
C8_SoldNeverDecreases == [][SoldCounterStep]_vars

\* an update of a row that has sold units has been answered
C8_Witness ==
  /\ req.op = "update" /\ resp.status = 200
  /\ \E k \in 1..Len(store) : store[k].id = req.item_id /\ SoldOf(store[k]) > 0

----------------------------------------------------------------------------
(* C9 *)

\* the answer to a sale that fails validation step n
SellError(n) ==
  CASE n = 1 -> [status |-> 400, detail |-> "Sold quantity is required"]
    [] n = 2 -> [status |-> 400, detail |-> "Sold quantity must be a valid integer"]
    [] n = 3 -> [status |-> 400, detail |-> "Sold quantity must be a positive integer"]
    [] n = 4 -> [status |-> 404, detail |-> "Item not found"]
    [] n = 5 -> [status |-> 500, detail |-> "Invalid inventory quantity"]
    [] n = 6 -> [status |-> 400, detail |-> "Not enough stock. Available: "]
    [] n = 7 -> [status |-> 500, detail |-> "Invalid item price"]

\* C9: a sale is validated in the order missing quantity, quantity format,
\* non-positive quantity, unknown id, corrupt stored quantity, insufficient
\* stock, corrupt stored price; the error reported is that of the first step
\* the request fails.
C9_FirstFailureReported ==
  [][(req'.op = "sell" /\ Answered /\ FirstViolated(store, req') # 0) =>
       /\ resp'.status = SellError(FirstViolated(store, req')).status
       /\ resp'.detail = SellError(FirstViolated(store, req')).detail]_vars

\* a sale of more than the stock of a row whose price does not parse has been
\* refused as insufficient stock
C9_Witness ==
  /\ req.op = "sell"
  /\ resp.detail = "Not enough stock. Available: "
  /\ \E k \in 1..Len(store) :
       /\ store[k].id = req.item_id
       /\ ~UnitPrice(store[k].price).ok

----------------------------------------------------------------------------
(* C10 *)

AddOutcome ==
  LET q == ParseInt(req'.quantity[1]).val
  IN IF q < 10
     THEN /\ resp'.status = 400
          /\ resp'.detail = "Quantity must be 10 or more"
          /\ store' = store
     ELSE UnitPrice(NormalizePrice(req'.price[1])).ok =>
            /\ resp'.status = 200
            /\ Len(store') = Len(store) + 1
            /\ store'[Len(store')].quantity = req'.quantity[1]

\* C10: an add with a quantity below 10 is refused as below the minimum and
\* leaves the inventory file as it was; with quantity 10 or more (and a price
\* that parses) it succeeds.
C10_AddMinimum ==
  [][(req'.op = "add" /\ Answered /\ ParseInt(req'.quantity[1]).ok) => AddOutcome]_vars

\* an add of exactly 10 units has succeeded
C10_Witness ==
  /\ req.op = "add" /\ resp.status = 200
  /\ Qty(store[Len(store)]) = 10
  /\ ParseInt(req.quantity[1]).val = 10

----------------------------------------------------------------------------
(* C11: an add that succeeds appends exactly one row at the end of the    *)
(* file and leaves the rows before it as they were and in their order.    *)
(* The new row has sold 0, total_investment = round(quantity * unit price,*)
(* 2), a price that begins with "$", and the id max(int(id)) + 1 (0 for   *)
(* an empty file) written with three digits, which is the id the answer   *)
(* carries: 001 for an empty file, 006 after the ids 001, 002 and 005.    *)

AddSucceeds == Answered /\ req'.op = "add" /\ resp'.status = 200

\* rows with the ids 001, 002 and 005
GappedIds ==
  <<NewItem(FormatId(1), <<"a">>, <<"1", "0">>, <<"1">>),
    NewItem(FormatId(2), <<"a">>, <<"1", "0">>, <<"1">>),
    NewItem(FormatId(5), <<"a">>, <<"1", "0">>, <<"1">>)>>

AddedRow(items, row, answer) ==
  /\ row.name = req'.name[1]
  /\ row.quantity = req'.quantity[1]
  /\ Head(row.price) = "$"
  /\ PriceOf(row) = ParseFloat(RemoveDollar(req'.price[1])).val
  /\ SoldOf(row) = 0
  /\ InvestmentOf(row) = 10 * Round2(Qty(row) * PriceOf(row))
  /\ Len(row.id) = 3
  /\ AllDigits(row.id)
  /\ DigitsVal(row.id) = MaxOf({DigitsVal(items[k].id) : k \in 1..Len(items)}) + 1
  /\ answer = row.id

C11_AddAppendsOne ==
  [][AddSucceeds =>
       /\ Len(store') = Len(store) + 1
       /\ IsPrefix(store, store')
       /\ AddedRow(store, store'[Len(store')], resp'.info)
       /\ NextId(<<>>) = <<"0", "0", "1">>
       /\ NextId(GappedIds) = <<"0", "0", "6">>]_vars

\* an add into a file whose ids do not start at 001: the new row is the
\* second one and carries 003
C11_Witness ==
  /\ req.op = "add" /\ resp.status = 200
  /\ Len(store) = 2
  /\ store[1].id = <<"0", "0", "2">>
  /\ store[2].id = <<"0", "0", "3">>
  /\ resp.info = store[2].id
  /\ req.price[1] = <<"2", ".", "5">>
  /\ store[2].price = <<"$", "2", ".", "5">>

----------------------------------------------------------------------------
(* C12: an update that succeeds is partial. Of name, quantity and price,  *)
(* each one the request carries replaces the row's value (the price in    *)
(* its "$" form) and each one it omits keeps it; total_investment is      *)
(* computed anew as round(quantity * unit price, 2) whatever it was; the  *)
(* row's id and sold, every other row, the order and the sales file stay  *)
(* as they were.                                                          *)

UpdateSucceeds == Answered /\ req'.op = "update" /\ resp'.status = 200

Supplied(opt, old) == IF Len(opt) = 0 THEN old ELSE opt[1]

UpdateApplied(old, new, rq) ==
  /\ new.id = old.id
  /\ new.sold = old.sold
  /\ new.name = Supplied(rq.name, old.name)
  /\ new.quantity = Supplied(rq.quantity, old.quantity)
  /\ IF Len(rq.price) = 0 THEN new.price = old.price
     ELSE /\ Head(new.price) = "$"
          /\ RemoveDollar(new.price) = RemoveDollar(rq.price[1])
  /\ InvestmentOf(new) = 10 * Round2(Qty(new) * PriceOf(new))

C12_UpdateIsPartial ==
  [][UpdateSucceeds =>
       /\ ledger' = ledger
       /\ Len(store') = Len(store)
       /\ \E k \in 1..Len(store) :
            /\ store[k].id = req'.item_id
            /\ UpdateApplied(store[k], store'[k], req')
            /\ \A j \in 1..Len(store) : j # k => store'[j] = store[j]]_vars

\* an update of the quantity alone on a row that has sold something: the
\* sold count is still there and total_investment is the new product
C12_Witness ==
  /\ req.op = "update" /\ resp.status = 200
  /\ Len(req.name) = 0 /\ Len(req.price) = 0 /\ Len(req.quantity) = 1
  /\ \E k \in 1..Len(store) :
       /\ store[k].id = req.item_id
       /\ SoldOf(store[k]) > 0
       /\ store[k].quantity = req.quantity[1]
       /\ InvestmentOf(store[k]) = 10 * Round2(Qty(store[k]) * PriceOf(store[k]))
  /\ Len(ledger) > 0

----------------------------------------------------------------------------
(* C13: an update or a delete for an id no row has is answered 404 "Item  *)
(* not found" and leaves the items file (its rows, their order and their  *)
(* values) and the sales file as they were.                               *)

UnknownId(items, rq) ==
  /\ rq.op \in {"update", "delete"}
  /\ \A k \in 1..Len(items) : items[k].id # rq.item_id

C13_UnknownIdChangesNothing ==
  [][(Answered /\ UnknownId(store, req')) =>
       /\ resp'.status = 404
       /\ resp'.detail = "Item not found"
       /\ store' = store
       /\ ledger' = ledger]_vars

\* an update for an id that is not in a file that has rows and sales
C13_Witness ==
  /\ req.op = "update" /\ resp.status = 404
  /\ Len(req.quantity) = 1
  /\ Len(store) > 0 /\ Len(ledger) > 0
  /\ \A k \in 1..Len(store) : store[k].id # req.item_id

----------------------------------------------------------------------------
(* C14: the sales file only grows, and what is in it never changes. Over  *)
(* every step of every request (add, update, delete, sell, list, search,  *)
(* analysis, sales history) its content before the step is a prefix of   *)
(* its content after it; it grows only in a sale, and then by exactly one *)
(* row; the rows of an item stay as they were when the item is updated or *)
(* deleted.                                                               *)

C14_LedgerAppendOnly ==
  [][/\ IsPrefix(ledger, ledger')
     /\ ledger' # ledger =>
          /\ req'.op = "sell"
          /\ resp'.status = 200
          /\ Len(ledger') = Len(ledger) + 1]_vars

\* an item with two sales has been deleted and its two rows are still in
\* the sales file
C14_Witness ==
  /\ req.op = "delete" /\ resp.status = 200
  /\ Len(ledger) = 2
  /\ \A k \in 1..2 : ledger[k].item_id = req.item_id
  /\ \A k \in 1..Len(store) : store[k].id # req.item_id

----------------------------------------------------------------------------
(* C16: after an add that succeeded, a list that follows it contains the  *)
(* new row, and a search for the new id that follows it returns exactly   *)
(* one row, the one that was added, whatever names and ids the other rows *)
(* have.                                                                  *)

\* the last request answered was an add that succeeded; its row is the last
AfterAdd == req.op = "add" /\ resp.status = 200 /\ Answered

AddedItem == store[Len(store)]

ListHasAdded ==
  (AfterAdd /\ req'.op = "list") =>
    /\ AddedItem.id = resp.info
    /\ \E k \in 1..Len(resp'.info) : resp'.info[k] = AddedItem

SearchesAdded == AfterAdd /\ req'.op = "search" /\ req'.query = resp.info

C16_RoundTrip ==
  [][/\ ListHasAdded
     /\ SearchesAdded => resp'.info = <<AddedItem>>]_vars

\* another row carries the text of the id in its name or in its id
SharesText(items, id) ==
  \E k \in 1..Len(items) :
    /\ items[k].id # id
    /\ Contains(Lower(items[k].name), id) \/ Contains(items[k].id, id)

(* C16, amended: the search for the new id returns the added row, every   *)
(* row it returns has the id's text in its name or its id, and it returns *)
(* the added row alone when no other row has that text in its name or id. *)
C16_RoundTripAmended ==
  [][/\ ListHasAdded
     /\ SearchesAdded =>
          /\ \E k \in 1..Len(resp'.info) : resp'.info[k] = AddedItem
          /\ \A k \in 1..Len(resp'.info) :
               \/ Contains(Lower(resp'.info[k].name), resp.info)
               \/ Contains(resp'.info[k].id, resp.info)
          /\ ~SharesText(store, resp.info) => resp'.info = <<AddedItem>>]_vars

\* two adds and then a search for the second id, which returns the second
\* row alone
C16_Witness ==
  /\ served = 3
  /\ req.op = "search"
  /\ Len(store) = 2
  /\ req.query = store[2].id
  /\ resp.info = <<store[2]>>

----------------------------------------------------------------------------
(* C17: the analysis returns total_items = the number of rows,            *)
(* total_investment = the sum of the rows' total_investment rounded to    *)
(* two decimals, and low_stock_count = the number of rows whose quantity  *)
(* is at most 5 (a row with 5 counts, a row with 6 does not); it changes  *)
(* neither the items file nor the sales file.                             *)

\* the sum of total_investment over the first n rows, in thousandths
RECURSIVE InvestmentSum(_, _)
InvestmentSum(items, n) ==
  IF n = 0 THEN 0 ELSE InvestmentOf(items[n]) + InvestmentSum(items, n - 1)

C17_Analysis ==
  [][(Answered /\ req'.op = "analysis") =>
       /\ resp'.status = 200
       /\ resp'.info.total_items = Len(store)
       /\ resp'.info.total_investment = Round2(InvestmentSum(store, Len(store)))
       /\ resp'.info.low_stock_count =
            Cardinality({k \in 1..Len(store) : Qty(store[k]) <= 5})
       /\ store' = store
       /\ ledger' = ledger]_vars

\* the analysis of a file with a row at quantity 5, which it counts
C17_Witness ==
  /\ req.op = "analysis" /\ resp.status = 200
  /\ \E k \in 1..Len(store) : Qty(store[k]) = 5
  /\ resp.info.low_stock_count = 1
  /\ resp.info.total_items = Len(store)

----------------------------------------------------------------------------
(* C18: the sales history returns exactly one (date, total sold) pair for *)
(* each distinct date of the sales file, the total being the sum of       *)
(* sold_quantity over the rows of that date, the pairs in strictly        *)
(* ascending order of date; for an empty sales file it returns the empty  *)
(* sequence.                                                              *)

\* the day of the month of a date yyyy-mm-dd
DayOf(date) == DigitsVal(SubSeq(date, 9, 10))

\* the units sold on a date, over the first n rows of the sales file
RECURSIVE SoldOn(_, _, _)
SoldOn(rows, date, n) ==
  IF n = 0 THEN 0
  ELSE (IF rows[n].date = date THEN DigitsVal(rows[n].sold_quantity) ELSE 0)
       + SoldOn(rows, date, n - 1)

C18_SalesByDate ==
  [][(Answered /\ req'.op = "history") =>
       LET pairs == resp'.info
       IN /\ resp'.status = 200
          /\ {pairs[i].date : i \in 1..Len(pairs)} =
               {ledger[k].date : k \in 1..Len(ledger)}
          /\ \A i, j \in 1..Len(pairs) :
               i < j => DayOf(pairs[i].date) < DayOf(pairs[j].date)
          /\ \A i \in 1..Len(pairs) :
               pairs[i].sold = SoldOn(ledger, pairs[i].date, Len(ledger))
          /\ ledger = <<>> => pairs = <<>>
          /\ ledger' = ledger]_vars

\* the history of a sales file with one sale on the 9th and one on the 10th
C18_Witness ==
  /\ req.op = "history" /\ resp.status = 200
  /\ Len(ledger) = 2
  /\ Len(resp.info) = 2
  /\ DayOf(resp.info[1].date) = 9
  /\ DayOf(resp.info[2].date) = 10

----------------------------------------------------------------------------
(* C19: in every state reached from the empty files by requests served    *)
(* one after another, the sold count of each row of the items file equals *)
(* the sum of sold_quantity over the rows of the sales file that carry    *)
(* the row's id.                                                          *)

\* the units the first n rows of the sales file record for an id
RECURSIVE LedgerSold(_, _, _)
LedgerSold(rows, id, n) ==
  IF n = 0 THEN 0
  ELSE (IF rows[n].item_id = id THEN DigitsVal(rows[n].sold_quantity) ELSE 0)
       + LedgerSold(rows, id, n - 1)

C19_SoldMatchesLedger ==
  \A k \in 1..Len(store) :
    SoldOf(store[k]) = LedgerSold(ledger, store[k].id, Len(ledger))

----------------------------------------------------------------------------
(* C15: nothing serialises the handlers, so two operations that change    *)
(* the items file and whose reads and rewrites interleave can both answer *)
(* success while the file holds only what the one that rewrote last made  *)
(* of it: a rewrite puts in the file the rows its handler read with that  *)
(* handler's own change, whatever was rewritten since it read them, so an *)
(* added row or the quantity and sold count of a sale are lost.           *)

\* thread t rewrites the items file in this step
Rewrites(t) == InFlight(t) /\ threads'[t].pc = "done"

\* the file after the rewrite is what t read, with t's change and no other
OwnChangeOnly(t) ==
  LET rq == threads[t].req
      read == threads[t].loaded
  IN /\ threads'[t].resp.status = 200
     /\ IF rq.op = "add"
        THEN /\ Len(store') = Len(read) + 1
             /\ IsPrefix(read, store')
             /\ store'[Len(store')].id = threads'[t].resp.info
        ELSE /\ Len(store') = Len(read)
             /\ \A k \in 1..Len(read) :
                  IF read[k].id = rq.item_id
                  THEN /\ Qty(store'[k]) = Qty(read[k]) - SoldQty(rq)
                       /\ SoldOf(store'[k]) = SoldOf(read[k]) + SoldQty(rq)
                  ELSE store'[k] = read[k]

C15_LastRewriteWins ==
  [][\A t \in Threads : Rewrites(t) => OwnChangeOnly(t)]_vars

\* two sales of the same item, of different quantities, have both answered
\* 200 and both are in the sales file, and the quantity in the items file is
\* the stock less the units of one of them alone
C15_Witness ==
  /\ \A t \in Threads :
       /\ threads[t].pc = "done"
       /\ threads[t].req.op = "sell"
       /\ threads[t].resp.status = 200
       /\ threads[t].req.item_id = store[1].id
  /\ threads[1].req.sold # threads[2].req.sold
  /\ Len(ledger) = 2
  /\ \A k \in 1..2 : ledger[k].item_id = store[1].id
  /\ ledger[1].sold_quantity # ledger[2].sold_quantity
  /\ \E t \in Threads : Qty(store[1]) + SoldQty(threads[t].req) = 10

----------------------------------------------------------------------------
(* C20: for a row with stock q that only sales touch, also when the       *)
(* reads, the ledger appends and the rewrites of sales running at the     *)
(* same time interleave in any order, the units the sales file records    *)
(* for the row never exceed q, and the quantity in the items file is q    *)
(* less those units (read at the moments when no sale stands between its  *)
(* ledger append and its rewrite).                                        *)

\* the stock every row is added with
StockAdded == ParseInt((CHOOSE a \in ThreadAdds : TRUE).quantity).val

\* no sale stands between its ledger append and its rewrite
Settled == \A t \in Threads : threads[t].pc # "recorded"

StockAccounted ==
  \A k \in 1..Len(store) :
    LET units == LedgerSold(ledger, store[k].id, Len(ledger))
    IN /\ units <= StockAdded
       /\ Settled => Qty(store[k]) = StockAdded - units

C20_StockAccounted == "add" \notin raced => StockAccounted

(* C20, amended: the same, for sales that do not interleave (no sale      *)
(* reads the items file while another operation stands between its read   *)
(* and its rewrite).                                                      *)
C20_StockAccountedUnraced == raced = {} => StockAccounted

\* two sales of the same item, one after the other, have both answered 200:
\* the sales file records seven units and three are left
C20_Witness ==
  /\ raced = {}
  /\ \A t \in Threads :
       /\ threads[t].pc = "done"
       /\ threads[t].req.op = "sell"
       /\ threads[t].resp.status = 200
  /\ Len(store) = 1
  /\ LedgerSold(ledger, store[1].id, Len(ledger)) = 7
  /\ Qty(store[1]) = 3

====
